---- MODULE Spec2Model ----
(***************************************************************************)
(* The two PyMuPDF subprocess scripts of Synaptic as one state machine:    *)
(*   scripts/extract-pdf-pymupdf.py  (text extractor)                      *)
(*   scripts/extract-pdf-images.py   (image extractor)                     *)
(* A behaviour is one process run: main() reads sys.argv, the extraction   *)
(* function walks the document page by page (and image by image), main()   *)
(* prints the result as JSON and exits.  The PDF library is the            *)
(* environment: the file behind the path argument is fixed in Init and     *)
(* every library call answers from it.                                     *)
(***************************************************************************)
EXTENDS Integers, Sequences, FiniteSets, TLC

VARIABLES
    script,          \* which script runs: "text" or "images"
    argv,            \* sys.argv, the script name first
    pdf,             \* the file behind argv[2], as the PDF library sees it
    pc,              \* position of the run
    page_num,        \* loop variable of the page loop (0-based)
    page_count,      \* len(doc)
    text_parts,      \* text extractor: list of included page texts
    pages_data,      \* text extractor: list of page records
    current_offset,  \* text extractor: running character offset
    output_dir,      \* image extractor: sys.argv[2] or None
    img_index,       \* image extractor: loop variable of the image loop
    images_data,     \* image extractor: list of image records
    total_extracted, \* image extractor: accepted image count
    result,          \* the dict the extraction function returned
    stdout,          \* the JSON objects printed so far
    exit_code,       \* process exit status, NoExit while running
    crashed,         \* TRUE once an exception escaped main() (traceback, no JSON)
    lib_calls,       \* history: PDF-library calls made, in order
    dirs_made,       \* history: directories created by os.makedirs
    files            \* history: files written, as <<path, bytes>> pairs

vars == <<script, argv, pdf, pc, page_num, page_count, text_parts, pages_data,
          current_offset, output_dir, img_index, images_data, total_extracted,
          result, stdout, exit_code, crashed, lib_calls, dirs_made, files>>

textVars == <<text_parts, pages_data, current_offset>>
imageVars == <<output_dir, img_index, images_data, total_extracted>>
envVars == <<script, argv, pdf>>

(***************************************************************************)
(* Bounds of the model and constants of the program.                       *)
(***************************************************************************)
MaxTextPages == 3
MaxImagePages == 2

min_text_length == 100
separator_length == 2
max_images == 50
min_size == 100

None == "None"
NoExit == -1
NoResult == [none |-> TRUE]

(***************************************************************************)
(* Strings are sequences of one-character strings.                         *)
(***************************************************************************)
Rep(c, n) == [i \in 1..n |-> c]

Whitespace == {" ", "\n"}

RECURSIVE LStrip(_)
LStrip(s) ==
    IF s = <<>> THEN <<>>
    ELSE IF Head(s) \in Whitespace THEN LStrip(Tail(s)) ELSE s

RECURSIVE RStrip(_)
RStrip(s) ==
    IF s = <<>> THEN <<>>
    ELSE IF s[Len(s)] \in Whitespace THEN RStrip(SubSeq(s, 1, Len(s) - 1)) ELSE s

\* str.strip()
strip(s) == RStrip(LStrip(s))

\* mutant of join: a one-character separator
RECURSIVE join_one_newline(_)
join_one_newline(parts) ==
    IF parts = <<>> THEN <<>>
    ELSE IF Len(parts) = 1 THEN parts[1]
    ELSE parts[1] \o <<"\n">> \o join_one_newline(Tail(parts))

\* "\n\n".join(parts)
RECURSIVE join(_)
join(parts) ==
    IF parts = <<>> THEN <<>>
    ELSE IF Len(parts) = 1 THEN parts[1]
    ELSE parts[1] \o <<"\n", "\n">> \o join(Tail(parts))

(***************************************************************************)
(* The files the runs are given.  A file either fails to open with one of  *)
(* the library's error kinds or opens as a document.  A text page is the   *)
(* string page.get_text() returns, or raises in get_text.                  *)
(***************************************************************************)
OpenErrors == {"FileDataError", "EmptyFileError", "Exception"}

ShortTexts ==
    { <<>>, <<" ", "\n">>, <<"a">>, <<"\n", "a">>,
      <<"a", "\n", "\n", "b">>, <<"b", " ">> }

LongTexts ==
    { Rep("a", 47), Rep("b", 49), <<" ">> \o Rep("a", 98) \o <<"\n">> }

TextPages ==
    { [raises |-> FALSE, text |-> t] : t \in ShortTexts \cup LongTexts }
        \cup { [raises |-> TRUE, text |-> <<>>] }

TextDocs == UNION { [1..n -> TextPages] : n \in 0..MaxTextPages }

TextFiles ==
    { [status |-> e, pages |-> <<>>] : e \in OpenErrors }
        \cup { [status |-> "ok", pages |-> d] : d \in TextDocs }

NoFile == [status |-> "none", pages |-> <<>>]

TextArgvs == { <<"extract-pdf-pymupdf.py">>, <<"extract-pdf-pymupdf.py", "doc.pdf">> }

(***************************************************************************)
(* Result dicts.                                                           *)
(***************************************************************************)
UsageError(s) ==
    [success |-> FALSE,
     error |-> IF s = "text"
               THEN "Usage: python3 extract-pdf-pymupdf.py <pdf_file_path>"
               ELSE "Usage: python3 extract-pdf-images.py <pdf_file_path> [output_directory]",
     method |-> "pymupdf"]

\* the except clauses of both extraction functions
OpenFailure(kind, generic) ==
    [success |-> FALSE,
     error |-> CASE kind = "FileDataError" -> "Invalid or corrupted PDF file"
                 [] kind = "EmptyFileError" -> "PDF file is empty"
                 [] OTHER -> generic,
     method |-> "pymupdf"]

NoTextError ==
    "No text could be extracted from this PDF. It might be a scanned document or contain only images. Consider using OCR software."

\* mutant of TextInsufficient: the length is taken without strip()
TextInsufficient_no_strip(full_text) ==
    full_text = <<>> \/ Len(full_text) < min_text_length

\* "if not full_text or len(full_text.strip()) < 100"
TextInsufficient(full_text) ==
    full_text = <<>> \/ Len(strip(full_text)) < min_text_length

TextResult(full_text, n, pages) ==
    IF TextInsufficient(full_text)
    THEN [success |-> FALSE, error |-> NoTextError, pageCount |-> n,
          method |-> "pymupdf"]
    ELSE [success |-> TRUE, text |-> full_text, pageCount |-> n,
          pages |-> pages, method |-> "pymupdf"]

\* the record appended for an included page
PageRecord(n, text, offset) ==
    [pageNumber |-> n + 1, text |-> text, startOffset |-> offset,
     endOffset |-> offset + Len(text)]

\* "if text.strip():"
PageIncluded(text) == strip(text) # <<>>

\* mutant of AdvanceOffset: the separator counted as one character
AdvanceOffset_sep_one(offset, text) ==
    IF PageIncluded(text) THEN offset + Len(text) + 1 ELSE offset

\* mutant of AdvanceOffset: the offset also advances for a skipped page
AdvanceOffset_on_skip(offset, text) == offset + Len(text) + separator_length

\* "current_offset = end_offset + 2", inside "if text.strip():" only
AdvanceOffset(offset, text) ==
    IF PageIncluded(text) THEN offset + Len(text) + separator_length ELSE offset

(***************************************************************************)
(* main() of both scripts: the argument check.                             *)
(***************************************************************************)
MainUsage ==
    /\ pc = "main"
    /\ Len(argv) < 2
    /\ stdout' = Append(stdout, UsageError(script))
    /\ exit_code' = 1
    /\ pc' = "done"
    /\ UNCHANGED <<envVars, page_num, page_count, textVars, imageVars, result,
                   crashed, lib_calls, dirs_made, files>>

MainText ==
    /\ pc = "main"
    /\ script = "text"
    /\ Len(argv) >= 2
    /\ pc' = "t_open"
    /\ UNCHANGED <<envVars, page_num, page_count, textVars, imageVars, result,
                   stdout, exit_code, crashed, lib_calls, dirs_made, files>>

(***************************************************************************)
(* extract_text_from_pdf                                                   *)
(***************************************************************************)
TextOpen ==
    /\ pc = "t_open"
    /\ lib_calls' = Append(lib_calls, <<"open", 0, 0>>)
    /\ IF pdf.status = "ok"
       THEN /\ text_parts' = <<>>
            /\ pages_data' = <<>>
            /\ current_offset' = 0
            /\ page_count' = Len(pdf.pages)
            /\ page_num' = 0
            /\ pc' = "t_loop"
            /\ UNCHANGED result
       ELSE /\ result' = OpenFailure(pdf.status, "Unable to parse PDF")
            /\ pc' = "print"
            /\ UNCHANGED <<page_num, page_count, textVars>>
    /\ UNCHANGED <<envVars, imageVars, stdout, exit_code, crashed, dirs_made, files>>

\* one iteration of "for page_num in range(page_count)"
TextPage ==
    /\ pc = "t_loop"
    /\ page_num < page_count
    /\ lib_calls' = Append(lib_calls, <<"get_text", page_num, 0>>)
    /\ LET page == pdf.pages[page_num + 1]
           text == page.text
       IN IF page.raises
          THEN /\ result' = OpenFailure("Exception", "Unable to parse PDF")
               /\ pc' = "print"
               /\ UNCHANGED <<page_num, textVars>>
          ELSE /\ IF PageIncluded(text)
                  THEN /\ pages_data' =
                            Append(pages_data, PageRecord(page_num, text, current_offset))
                       /\ text_parts' = Append(text_parts, text)
                  ELSE UNCHANGED <<pages_data, text_parts>>
               /\ current_offset' = AdvanceOffset(current_offset, text)
               /\ page_num' = page_num + 1
               /\ UNCHANGED <<result, pc>>
    /\ UNCHANGED <<envVars, page_count, imageVars, stdout, exit_code, crashed,
                   dirs_made, files>>

\* after the loop: join, close, threshold check, return
TextFinish ==
    /\ pc = "t_loop"
    /\ page_num = page_count
    /\ lib_calls' = Append(lib_calls, <<"close", 0, 0>>)
    /\ result' = TextResult(join(text_parts), page_count, pages_data)
    /\ pc' = "print"
    /\ UNCHANGED <<envVars, page_num, page_count, textVars, imageVars, stdout,
                   exit_code, crashed, dirs_made, files>>

(***************************************************************************)
(* main() of both scripts: print(json.dumps(result)); sys.exit(...)        *)
(***************************************************************************)
\* mutant of ExitStatus: the exit status ignores the result
ExitStatus_always_zero(r) == 0

ExitStatus(r) == IF r.success THEN 0 ELSE 1

MainPrint ==
    /\ pc = "print"
    /\ stdout' = Append(stdout, result)
    /\ exit_code' = ExitStatus(result)
    /\ pc' = "done"
    /\ UNCHANGED <<envVars, page_num, page_count, textVars, imageVars, result,
                   crashed, lib_calls, dirs_made, files>>

(***************************************************************************)
(* Images.  An image of a page is named by its kind; Img gives what the    *)
(* library (and, for "wfail", the file system) answers for it:             *)
(*   fail   "extract": doc.extract_image raises; "falsy": it returns an    *)
(*          empty dict; "nokey": the dict has no "image" entry;            *)
(*          "rects": page.get_image_rects raises; "write": open() of the   *)
(*          image file raises; "none": nothing fails                       *)
(*   w, h   base_image["width"], ["height"], Absent when the key is missing*)
(*   rects  the first rectangle get_image_rects yields, <<>> when none     *)
(***************************************************************************)
Absent == -1

Img(k) ==
    CASE k = "ok100" -> [fail |-> "none", w |-> 100, h |-> 100, ext |-> "png",
                         bytes |-> <<137, 80, 78>>, rects |-> <<10, 20, 110, 120>>,
                         xref |-> 11]
      [] k = "big"   -> [fail |-> "none", w |-> 101, h |-> 200, ext |-> "jpeg",
                         bytes |-> <<255, 216, 255, 224>>, rects |-> <<>>, xref |-> 12]
      [] k = "s99"   -> [fail |-> "none", w |-> 99, h |-> 99, ext |-> "png",
                         bytes |-> <<1>>, rects |-> <<0, 0, 99, 99>>, xref |-> 13]
      [] k = "w99"   -> [fail |-> "none", w |-> 99, h |-> 100, ext |-> "png",
                         bytes |-> <<2>>, rects |-> <<0, 0, 99, 100>>, xref |-> 14]
      [] k = "h99"   -> [fail |-> "none", w |-> 100, h |-> 99, ext |-> "png",
                         bytes |-> <<3>>, rects |-> <<0, 0, 100, 99>>, xref |-> 15]
      [] k = "nodim" -> [fail |-> "none", w |-> Absent, h |-> Absent, ext |-> "png",
                         bytes |-> <<4, 5>>, rects |-> <<0, 0, 300, 300>>, xref |-> 16]
      [] k = "falsy" -> [fail |-> "falsy", w |-> Absent, h |-> Absent, ext |-> "",
                         bytes |-> <<>>, rects |-> <<>>, xref |-> 17]
      [] k = "xfail" -> [fail |-> "extract", w |-> 300, h |-> 300, ext |-> "png",
                         bytes |-> <<6>>, rects |-> <<0, 0, 300, 300>>, xref |-> 18]
      [] k = "nokey" -> [fail |-> "nokey", w |-> 300, h |-> 300, ext |-> "png",
                         bytes |-> <<>>, rects |-> <<0, 0, 300, 300>>, xref |-> 19]
      [] k = "rfail" -> [fail |-> "rects", w |-> 100, h |-> 100, ext |-> "png",
                         bytes |-> <<7, 8, 9>>, rects |-> <<>>, xref |-> 20]
      [] k = "wfail" -> [fail |-> "write", w |-> 100, h |-> 101, ext |-> "gif",
                         bytes |-> <<71, 73>>, rects |-> <<5, 5, 105, 106>>, xref |-> 21]

ImageKinds ==
    { "ok100", "big", "s99", "w99", "h99", "nodim", "falsy", "xfail", "nokey",
      "rfail", "wfail" }

\* a page is the list page.get_images() returns, or raises in get_images
ImageLists ==
    { <<>>, <<"ok100">>, <<"wfail">>,
      <<"s99", "ok100", "w99", "h99", "big", "nodim">>,
      <<"xfail", "ok100", "falsy", "nokey", "rfail", "wfail", "big">>,
      Rep("ok100", 50), Rep("ok100", 51),
      <<"xfail">> \o Rep("ok100", 49) \o <<"s99", "big", "ok100">> }

ImagePages ==
    { [raises |-> FALSE, images |-> l] : l \in ImageLists }
        \cup { [raises |-> TRUE, images |-> <<>>] }

ImageDocs == UNION { [1..n -> ImagePages] : n \in 0..MaxImagePages }

ImageFiles ==
    { [status |-> e, pages |-> <<>>] : e \in OpenErrors }
        \cup { [status |-> "ok", pages |-> d] : d \in ImageDocs }

ImageArgvs ==
    { <<"extract-pdf-images.py">>, <<"extract-pdf-images.py", "doc.pdf">>,
      <<"extract-pdf-images.py", "doc.pdf", "">>,
      <<"extract-pdf-images.py", "doc.pdf", "out">> }

\* Python truthiness of output_dir: None and "" are false
Truthy(d) == d # None /\ d # ""

\* dict.get(key, default)
Get(v, default) == IF v = Absent THEN default ELSE v

(***************************************************************************)
(* base64.b64encode over byte sequences (RFC 4648).                        *)
(***************************************************************************)
B64Chars ==
    << "A", "B", "C", "D", "E", "F", "G", "H", "I", "J", "K", "L", "M", "N", "O", "P",
       "Q", "R", "S", "T", "U", "V", "W", "X", "Y", "Z", "a", "b", "c", "d", "e", "f",
       "g", "h", "i", "j", "k", "l", "m", "n", "o", "p", "q", "r", "s", "t", "u", "v",
       "w", "x", "y", "z", "0", "1", "2", "3", "4", "5", "6", "7", "8", "9", "+", "/" >>

B64Char(n) == B64Chars[n + 1]

RECURSIVE b64encode(_)
b64encode(b) ==
    CASE Len(b) = 0 -> <<>>
      [] Len(b) = 1 ->
            << B64Char(b[1] \div 4), B64Char((b[1] % 4) * 16), "=", "=" >>
      [] Len(b) = 2 ->
            << B64Char(b[1] \div 4), B64Char((b[1] % 4) * 16 + b[2] \div 16),
               B64Char((b[2] % 16) * 4), "=" >>
      [] OTHER ->
            << B64Char(b[1] \div 4), B64Char((b[1] % 4) * 16 + b[2] \div 16),
               B64Char((b[2] % 16) * 4 + b[3] \div 64), B64Char(b[3] % 64) >>
                \o b64encode(SubSeq(b, 4, Len(b)))

(***************************************************************************)
(* extract_images_from_pdf: the pieces of one image-loop iteration.        *)
(***************************************************************************)
\* mutant of CapReached: the cap test is off by one
CapReached_off_by_one(n) == n > max_images

\* "if total_extracted >= max_images: break"
CapReached(n) == n >= max_images

\* mutant of TooSmall: an image exactly at the threshold is skipped
TooSmall_inclusive(width, height) == width <= min_size \/ height <= min_size

\* "if width < min_size or height < min_size: continue"
TooSmall(width, height) == width < min_size \/ height < min_size

\* f"page_{page_num + 1}_img_{img_index}.{image_ext}"
Filename(p, i, ext) == <<"page", p + 1, "img", i, ext>>

\* os.path.join(output_dir, filename)
Filepath(dir, filename) == <<dir, filename>>

\* doc.extract_image(xref) returned a usable dict with "image" and "ext"
Extracted(img) == img.fail \notin {"extract", "falsy", "nokey"}

\* the iteration gets as far as page.get_image_rects(xref)
ReachesRects(img) ==
    Extracted(img) /\ ~TooSmall(Get(img.w, 0), Get(img.h, 0))

\* the iteration gets as far as "if output_dir:"
ReachesOutput(img) == ReachesRects(img) /\ img.fail # "rects"

\* mutant of Accepted: the record is kept although writing its file raised
Accepted_despite_write_error(img, dir) ==
    Extracted(img) /\ ~TooSmall(Get(img.w, 0), Get(img.h, 0)) /\ img.fail # "rects"

\* the iteration reaches images_data.append: nothing raised, nothing skipped
Accepted(img, dir) ==
    ReachesOutput(img) /\ (Truthy(dir) => img.fail # "write")

\* image_info as first built
ImageInfo(p, i, img) ==
    [pageNumber |-> p + 1, imageIndex |-> i, filename |-> Filename(p, i, img.ext),
     width |-> Get(img.w, 0), height |-> Get(img.h, 0), colorspace |-> 3,
     bitsPerComponent |-> 8, xref |-> img.xref, extension |-> img.ext,
     sizeBytes |-> Len(img.bytes)]

\* "if bbox: image_info['bbox'] = bbox"
WithBBox(info, img) ==
    IF img.rects # <<>> THEN info @@ [bbox |-> img.rects] ELSE info

\* mutant of WithPayload: base64 and mimeType are recorded in both modes
WithPayload_always_inline(info, img, dir) ==
    IF Truthy(dir)
    THEN info @@ [filepath |-> Filepath(dir, info.filename),
                  base64 |-> b64encode(img.bytes), mimeType |-> "image/" \o img.ext]
    ELSE info @@ [base64 |-> b64encode(img.bytes), mimeType |-> "image/" \o img.ext]

\* "if output_dir: ... filepath ... else: ... base64, mimeType"
WithPayload(info, img, dir) ==
    IF Truthy(dir)
    THEN info @@ [filepath |-> Filepath(dir, info.filename)]
    ELSE info @@ [base64 |-> b64encode(img.bytes), mimeType |-> "image/" \o img.ext]

\* the file "with open(filepath, 'wb') as f: f.write(image_bytes)" leaves
WrittenFile(info, img, dir) ==
    [path |-> Filepath(dir, info.filename), bytes |-> img.bytes]

\* "total_extracted += 1", reached only after images_data.append
CountAfter(total, accepted) == IF accepted THEN total + 1 ELSE total

ImageSuccess(images, total, n) ==
    [success |-> TRUE, images |-> images, totalImages |-> total, pageCount |-> n,
     method |-> "pymupdf"]

(***************************************************************************)
(* main() of the image extractor: arguments and the output directory.      *)
(* os.path.exists and os.makedirs answer from the file system: the         *)
(* directory exists, or is created, or cannot be created (makedirs raises  *)
(* outside any try).                                                       *)
(***************************************************************************)
MainImages ==
    /\ pc = "main"
    /\ script = "images"
    /\ Len(argv) >= 2
    /\ LET dir == IF Len(argv) > 2 THEN argv[3] ELSE None
       IN /\ output_dir' = dir
          /\ \/ /\ ~Truthy(dir)
                /\ pc' = "i_open"
                /\ UNCHANGED <<dirs_made, crashed, exit_code>>
             \/ /\ Truthy(dir)     \* os.path.exists(output_dir)
                /\ pc' = "i_open"
                /\ UNCHANGED <<dirs_made, crashed, exit_code>>
             \/ /\ Truthy(dir)     \* os.makedirs creates it
                /\ dirs_made' = dirs_made \cup {dir}
                /\ pc' = "i_open"
                /\ UNCHANGED <<crashed, exit_code>>
             \/ /\ Truthy(dir)     \* os.makedirs raises: uncaught, traceback
                /\ crashed' = TRUE
                /\ exit_code' = 1
                /\ pc' = "done"
                /\ UNCHANGED dirs_made
    /\ UNCHANGED <<envVars, page_num, page_count, textVars, img_index, images_data,
                   total_extracted, result, stdout, lib_calls, files>>

ImageOpen ==
    /\ pc = "i_open"
    /\ lib_calls' = Append(lib_calls, <<"open", 0, 0>>)
    /\ IF pdf.status = "ok"
       THEN /\ images_data' = <<>>
            /\ total_extracted' = 0
            /\ page_count' = Len(pdf.pages)
            /\ page_num' = 0
            /\ pc' = "i_page"
            /\ UNCHANGED result
       ELSE /\ result' = OpenFailure(pdf.status, "Unable to extract images")
            /\ pc' = "print"
            /\ UNCHANGED <<page_num, page_count, images_data, total_extracted>>
    /\ UNCHANGED <<envVars, textVars, output_dir, img_index, stdout, exit_code,
                   crashed, dirs_made, files>>

\* top of "for page_num in range(page_count)": load the page, list its images
ImagePage ==
    /\ pc = "i_page"
    /\ page_num < page_count
    /\ ~CapReached(total_extracted)
    /\ lib_calls' = Append(lib_calls, <<"get_images", page_num, 0>>)
    /\ IF pdf.pages[page_num + 1].raises
       THEN /\ result' = OpenFailure("Exception", "Unable to extract images")
            /\ pc' = "print"
            /\ UNCHANGED img_index
       ELSE /\ img_index' = 0
            /\ pc' = "i_img"
            /\ UNCHANGED result
    /\ UNCHANGED <<envVars, page_num, page_count, textVars, output_dir, images_data,
                   total_extracted, stdout, exit_code, crashed, dirs_made, files>>

\* one iteration of "for img_index, img_info in enumerate(image_list)"
ImageStep ==
    /\ pc = "i_img"
    /\ img_index < Len(pdf.pages[page_num + 1].images)
    /\ ~CapReached(total_extracted)
    /\ LET img == Img(pdf.pages[page_num + 1].images[img_index + 1])
           ok == Accepted(img, output_dir)
           info == WithPayload(WithBBox(ImageInfo(page_num, img_index, img), img),
                               img, output_dir)
       IN /\ lib_calls' =
                lib_calls \o <<<<"extract_image", page_num, img_index>>>>
                          \o (IF ReachesRects(img)
                              THEN <<<<"get_image_rects", page_num, img_index>>>>
                              ELSE <<>>)
          /\ files' = IF ok /\ Truthy(output_dir)
                      THEN {f \in files : f.path # info.filepath}
                               \cup {WrittenFile(info, img, output_dir)}
                      ELSE files
          /\ images_data' = IF ok THEN Append(images_data, info) ELSE images_data
          /\ total_extracted' = CountAfter(total_extracted, ok)
    /\ img_index' = img_index + 1
    /\ UNCHANGED <<envVars, pc, page_num, page_count, textVars, output_dir, result,
                   stdout, exit_code, crashed, dirs_made>>

\* the image loop ends: the list is exhausted, or the cap breaks it
ImageLoopEnd ==
    /\ pc = "i_img"
    /\ \/ img_index = Len(pdf.pages[page_num + 1].images)
       \/ /\ img_index < Len(pdf.pages[page_num + 1].images)
          /\ CapReached(total_extracted)
    /\ page_num' = page_num + 1
    /\ pc' = "i_page"
    /\ UNCHANGED <<envVars, page_count, textVars, imageVars, result, stdout,
                   exit_code, crashed, lib_calls, dirs_made, files>>

\* the page loop ends (exhausted or broken by the cap): close and return
ImageFinish ==
    /\ pc = "i_page"
    /\ page_num = page_count \/ CapReached(total_extracted)
    /\ lib_calls' = Append(lib_calls, <<"close", 0, 0>>)
    /\ result' = ImageSuccess(images_data, total_extracted, page_count)
    /\ pc' = "print"
    /\ UNCHANGED <<envVars, page_num, page_count, textVars, imageVars, stdout,
                   exit_code, crashed, dirs_made, files>>

(***************************************************************************)
(* The runs.                                                               *)
(***************************************************************************)
Init ==
    /\ script \in {"text", "images"}
    /\ argv \in (IF script = "text" THEN TextArgvs ELSE ImageArgvs)
    /\ pdf \in (IF Len(argv) < 2 THEN {NoFile}
                ELSE IF script = "text" THEN TextFiles ELSE ImageFiles)
    /\ pc = "main"
    /\ page_num = 0
    /\ page_count = 0
    /\ text_parts = <<>>
    /\ pages_data = <<>>
    /\ current_offset = 0
    /\ output_dir = None
    /\ img_index = 0
    /\ images_data = <<>>
    /\ total_extracted = 0
    /\ result = NoResult
    /\ stdout = <<>>
    /\ exit_code = NoExit
    /\ crashed = FALSE
    /\ lib_calls = <<>>
    /\ dirs_made = {}
    /\ files = {}

Next ==
    \/ MainUsage
    \/ MainText
    \/ TextOpen
    \/ TextPage
    \/ TextFinish
    \/ MainImages
    \/ ImageOpen
    \/ ImagePage
    \/ ImageStep
    \/ ImageLoopEnd
    \/ ImageFinish
    \/ MainPrint

Spec == Init /\ [][Next]_vars

(***************************************************************************)
(* Properties.  The notions the claims use are defined here from the       *)
(* claims' own words, independently of the operators the actions use.      *)
(***************************************************************************)
TextRun == script = "text"
ImageRun == script = "images"
Returned == "success" \in DOMAIN result
Opened == pdf.status = "ok"
NoPageRaises == \A i \in 1..Len(pdf.pages) : ~pdf.pages[i].raises

\* a text with at least one non-whitespace character
HasText(t) == \E i \in 1..Len(t) : t[i] \notin {" ", "\n"}

\* length of t without its leading and trailing whitespace
TrimmedLength(t) ==
    IF ~HasText(t) THEN 0
    ELSE LET first == CHOOSE i \in 1..Len(t) :
                          /\ t[i] \notin {" ", "\n"}
                          /\ \A j \in 1..(i - 1) : t[j] \in {" ", "\n"}
             last == CHOOSE i \in 1..Len(t) :
                          /\ t[i] \notin {" ", "\n"}
                          /\ \A j \in (i + 1)..Len(t) : t[j] \in {" ", "\n"}
         IN last - first + 1

\* texts[1] \n\n texts[2] \n\n ... texts[n]
RECURSIVE Joined(_)
Joined(texts) ==
    IF Len(texts) = 0 THEN <<>>
    ELSE IF Len(texts) = 1 THEN texts[1]
    ELSE Joined(SubSeq(texts, 1, Len(texts) - 1)) \o <<"\n", "\n">> \o texts[Len(texts)]

TextsOf(pages) == [i \in 1..Len(pages) |-> pages[i].text]

\* the 1-based numbers of the first n pages of the file that have text
RECURSIVE PagesWithText(_)
PagesWithText(n) ==
    IF n = 0 THEN <<>>
    ELSE IF HasText(pdf.pages[n].text) THEN Append(PagesWithText(n - 1), n)
    ELSE PagesWithText(n - 1)

\* the full text the file should give: its pages with text, joined
ExpectedFullText ==
    LET keep == PagesWithText(Len(pdf.pages))
    IN Joined([i \in 1..Len(keep) |-> pdf.pages[keep[i]].text])

\* C1: in every successful result of the text extractor, the page records'
\* texts joined in order by "\n\n" are exactly the result's text field.
C1_JoinReproducesText ==
    (TextRun /\ Returned /\ result.success)
        => Joined(TextsOf(result.pages)) = result.text

\* C1 witness: a successful result in which a page was skipped and a page
\* text itself contains a newline.
C1_Witness ==
    /\ TextRun /\ pc = "done" /\ stdout # <<>> /\ stdout[1].success
    /\ Len(stdout[1].pages) < stdout[1].pageCount
    /\ \E i \in 1..Len(stdout[1].pages) :
          \E j \in 1..Len(stdout[1].pages[i].text) : stdout[1].pages[i].text[j] = "\n"

\* ranges strictly increasing, non-overlapping, exactly 2 characters apart
RangesInOrder(pages) ==
    \A i \in 1..Len(pages) :
        /\ pages[i].startOffset < pages[i].endOffset
        /\ i < Len(pages) =>
              /\ pages[i + 1].startOffset = pages[i].endOffset + 2
              /\ pages[i].startOffset < pages[i + 1].startOffset

AllPagesHaveText ==
    /\ Opened
    /\ Len(pdf.pages) >= 1
    /\ \A i \in 1..Len(pdf.pages) :
          ~pdf.pages[i].raises /\ HasText(pdf.pages[i].text)

\* C2 as stated: for a PDF with N pages all containing text, the result has
\* pageCount = N and N page records with ranges in order, 2 apart.
C2_AsStated ==
    (TextRun /\ pc = "done" /\ AllPagesHaveText)
        => /\ stdout[1].pageCount = Len(pdf.pages)
           /\ "pages" \in DOMAIN stdout[1]
           /\ Len(stdout[1].pages) = Len(pdf.pages)
           /\ RangesInOrder(stdout[1].pages)

\* C2 amended: the same, for files whose joined text has a trimmed length of
\* at least 100 characters; below that the result is the failure, which
\* still has pageCount = N and has no pages field.
C2_AllTextPages ==
    (TextRun /\ pc = "done" /\ AllPagesHaveText)
        => /\ stdout[1].pageCount = Len(pdf.pages)
           /\ IF TrimmedLength(ExpectedFullText) >= 100
              THEN /\ stdout[1].success
                   /\ Len(stdout[1].pages) = Len(pdf.pages)
                   /\ RangesInOrder(stdout[1].pages)
              ELSE ~stdout[1].success /\ "pages" \notin DOMAIN stdout[1]

\* C2 witness: a printed success for a file of two or more pages, all with text.
C2_Witness ==
    /\ TextRun /\ pc = "done" /\ AllPagesHaveText
    /\ Len(pdf.pages) >= 2
    /\ stdout[1].success
    /\ Len(stdout[1].pages) = Len(pdf.pages)

\* C3: after any prefix of pages: the first record starts at 0; each record
\* ends at start + length of its text; each later record starts 2 after the
\* previous one ends; the records are exactly the pages with text, in order,
\* and the running offset is 0 before the first record and the last end + 2
\* after it, so a page without text leaves no record and no gap.  In a
\* successful result each record's [startOffset, endOffset) slice of the full
\* text is the record's text.
C3_RunningOffset ==
    (TextRun /\ Opened /\ pc \in {"t_loop", "print", "done"})
        => /\ Len(pages_data) = Len(PagesWithText(page_num))
           /\ \A i \in 1..Len(pages_data) :
                 /\ pages_data[i].pageNumber = PagesWithText(page_num)[i]
                 /\ pages_data[i].text = pdf.pages[pages_data[i].pageNumber].text
                 /\ pages_data[i].endOffset =
                        pages_data[i].startOffset + Len(pages_data[i].text)
                 /\ pages_data[i].startOffset =
                        IF i = 1 THEN 0 ELSE pages_data[i - 1].endOffset + 2
           /\ current_offset =
                 IF pages_data = <<>> THEN 0
                 ELSE pages_data[Len(pages_data)].endOffset + 2
           /\ (Returned /\ result.success) =>
                 \A i \in 1..Len(result.pages) :
                     SubSeq(result.text, result.pages[i].startOffset + 1,
                            result.pages[i].endOffset) = result.pages[i].text

\* C3 witness: a successful result whose records come from pages 1 and 3,
\* page 2 having been skipped.
C3_Witness ==
    /\ TextRun /\ pc = "done" /\ Returned /\ result.success
    /\ Len(result.pages) = 2
    /\ result.pages[1].pageNumber = 1
    /\ result.pages[2].pageNumber = 3
    /\ ~HasText(pdf.pages[2].text)

\* C4: when the document opens and every page is read, the result is the
\* image-only/OCR failure with pageCount = number of pages and no text or
\* pages field if the full text is empty or its trimmed length is below 100,
\* and a success with pageCount = number of pages otherwise.
C4_ContentThreshold ==
    (TextRun /\ pc \in {"print", "done"} /\ Opened /\ NoPageRaises)
        => IF ExpectedFullText = <<>> \/ TrimmedLength(ExpectedFullText) < 100
           THEN /\ result.success = FALSE
                /\ result.error = NoTextError
                /\ result.pageCount = Len(pdf.pages)
                /\ result.method = "pymupdf"
                /\ DOMAIN result = {"success", "error", "pageCount", "method"}
           ELSE /\ result.success = TRUE
                /\ result.pageCount = Len(pdf.pages)
                /\ result.text = ExpectedFullText

\* C4 witness: the failure is printed for a file whose full text has 100 or
\* more characters, fewer than 100 of them after trimming.
C4_Witness ==
    /\ TextRun /\ pc = "done" /\ Opened /\ NoPageRaises
    /\ Len(ExpectedFullText) >= 100
    /\ stdout[1].success = FALSE
    /\ stdout[1].pageCount = Len(pdf.pages)

(***************************************************************************)
(* Both scripts: failures and exit status.                                 *)
(***************************************************************************)
UsageMessages ==
    { "Usage: python3 extract-pdf-pymupdf.py <pdf_file_path>",
      "Usage: python3 extract-pdf-images.py <pdf_file_path> [output_directory]" }

\* C5 as stated: every run that ends in a failure has printed exactly one
\* JSON object, with success = false, an error string and method "pymupdf",
\* and did not end in an uncaught exception.
C5_FailureIsJson ==
    (pc = "done" /\ exit_code # 0)
        => /\ ~crashed
           /\ Len(stdout) = 1
           /\ stdout[1].success = FALSE
           /\ "error" \in DOMAIN stdout[1]
           /\ stdout[1].method = "pymupdf"

\* C6: the exit status is 0 exactly when a result with success = true was
\* printed and 1 otherwise; a run with no arguments makes no library call,
\* creates no directory and writes no file, and ends with exit status 1 and
\* one printed object with success = false and a usage error.
C6_ExitStatus ==
    /\ pc = "done" =>
          /\ exit_code \in {0, 1}
          /\ exit_code = 0 <=> (Len(stdout) = 1 /\ stdout[1].success)
    /\ pc # "done" => exit_code = NoExit
    /\ Len(argv) < 2 =>
          /\ lib_calls = <<>> /\ dirs_made = {} /\ files = {}
          /\ pc = "done" =>
                /\ exit_code = 1
                /\ ~crashed
                /\ Len(stdout) = 1
                /\ stdout[1].success = FALSE
                /\ stdout[1].error \in UsageMessages
                /\ stdout[1].method = "pymupdf"

\* C6 witness: the image extractor, run with no arguments, has exited.
C6_Witness ==
    /\ ImageRun /\ Len(argv) < 2 /\ pc = "done"
    /\ exit_code = 1 /\ Len(stdout) = 1

(***************************************************************************)
(* Image extractor.                                                        *)
(***************************************************************************)
\* the output directory argument is present and not the empty string
DirGiven == Len(argv) > 2 /\ argv[3] # ""

\* the image at 0-based page p, 0-based index i
ImageAt(p, i) == Img(pdf.pages[p + 1].images[i + 1])

\* a width or height, a missing one counting as 0
Dim(v) == IF v = Absent THEN 0 ELSE v

BigEnough(m) == Dim(m.w) >= 100 /\ Dim(m.h) >= 100

\* handling the image raises: raw-byte extraction, bounding-box lookup, or
\* (when files are written) writing its file
HandlingFails(m) ==
    \/ m.fail \in {"extract", "nokey", "rects"}
    \/ m.fail = "write" /\ DirGiven

\* the image is extracted and handled without any failure
HandledCleanly(m) == ~HandlingFails(m) /\ m.fail # "falsy"

Qualifies(m) == HandledCleanly(m) /\ BigEnough(m)

\* doc.extract_image was called for the image at (p, i)
Visited(p, i) == \E j \in 1..Len(lib_calls) : lib_calls[j] = <<"extract_image", p, i>>

\* a record of the image at (p, i) is in the list
Recorded(p, i) ==
    \E j \in 1..Len(images_data) :
        images_data[j].pageNumber = p + 1 /\ images_data[j].imageIndex = i

\* all image positions of the first n pages, in page order then image order
RECURSIVE Positions(_)
Positions(n) ==
    IF n = 0 THEN <<>>
    ELSE Positions(n - 1)
            \o [i \in 1..Len(pdf.pages[n].images) |-> <<n - 1, i - 1>>]

IsQualifying(pos) == Qualifies(ImageAt(pos[1], pos[2]))

QualifyingPositions == SelectSeq(Positions(Len(pdf.pages)), IsQualifying)

FirstN(seq, n) == SubSeq(seq, 1, IF Len(seq) < n THEN Len(seq) ELSE n)

\* (p1, i1) is at or before (p2, i2) in page order then image order
AtOrBefore(p1, i1, p2, i2) == p1 < p2 \/ (p1 = p2 /\ i1 <= i2)

\* C7: the accepted count always equals the length of the record list and
\* is at most 50; a successful result holds the first 50 qualifying images
\* of the document in page then image order (all of them when there are
\* fewer), with totalImages their number; and once the count is 50 no page
\* is loaded and no image extraction is attempted past the 50th accepted
\* image.
C7_ImageCap ==
    ImageRun =>
        /\ total_extracted = Len(images_data)
        /\ total_extracted <= 50
        /\ (Returned /\ result.success) =>
              /\ result.totalImages = Len(result.images)
              /\ [j \in 1..Len(result.images) |->
                     <<result.images[j].pageNumber - 1, result.images[j].imageIndex>>]
                   = FirstN(QualifyingPositions, 50)
        /\ total_extracted = 50 =>
              \A j \in 1..Len(lib_calls) :
                  lib_calls[j][1] \in {"get_images", "extract_image", "get_image_rects"}
                      => AtOrBefore(lib_calls[j][2], lib_calls[j][3],
                                    images_data[50].pageNumber - 1,
                                    images_data[50].imageIndex)

\* C7 witness: a document with more than 50 qualifying images on two pages
\* or more gave a printed result of exactly 50, a page left unvisited.
C7_Witness ==
    /\ ImageRun /\ pc = "done" /\ Returned /\ result.success
    /\ Len(QualifyingPositions) > 50
    /\ Len(stdout[1].images) = 50
    /\ page_num < page_count

\* doc.extract_image returned the image's bytes and dimensions
RawExtracted(m) == m.fail \notin {"extract", "falsy", "nokey"}

\* the returned result holds a record of the image at (p, i)
InResult(p, i) ==
    \E j \in 1..Len(result.images) :
        result.images[j].pageNumber = p + 1 /\ result.images[j].imageIndex = i

\* C8 as stated: of the images visited (so the cap was not reached) whose
\* extraction succeeded, exactly those with width >= 100 and height >= 100
\* are in the result, a missing width or height counting as 0.
C8_AsStated ==
    (ImageRun /\ Returned /\ result.success) =>
        \A j \in 1..Len(lib_calls) :
            (lib_calls[j][1] = "extract_image"
                /\ RawExtracted(ImageAt(lib_calls[j][2], lib_calls[j][3])))
            => (InResult(lib_calls[j][2], lib_calls[j][3])
                  <=> BigEnough(ImageAt(lib_calls[j][2], lib_calls[j][3])))

\* C8 amended: the same, of the images whose extraction succeeded and whose
\* bounding-box lookup and file write did not fail either; an image of
\* sufficient size whose lookup or write fails is not in the result.
C8_MinSize ==
    (ImageRun /\ Returned /\ result.success) =>
        \A j \in 1..Len(lib_calls) :
            lib_calls[j][1] = "extract_image" =>
                LET m == ImageAt(lib_calls[j][2], lib_calls[j][3])
                    rec == InResult(lib_calls[j][2], lib_calls[j][3])
                IN /\ HandledCleanly(m) => (rec <=> BigEnough(m))
                   /\ (RawExtracted(m) /\ HandlingFails(m)) => ~rec

\* C8 witness: one page gave a 100x100 image that is recorded and a 99x99,
\* a 99x100, a 100x99 and a dimensionless image that are not.
C8_Witness ==
    /\ ImageRun /\ pc = "done" /\ Returned /\ result.success
    /\ \E p \in 0..(page_count - 1) :
          /\ Len(pdf.pages[p + 1].images) = 6
          /\ pdf.pages[p + 1].images[1] = "s99"
          /\ Visited(p, 0) /\ ~Recorded(p, 0)
          /\ Visited(p, 1) /\ Recorded(p, 1)
          /\ Visited(p, 2) /\ ~Recorded(p, 2)
          /\ Visited(p, 3) /\ ~Recorded(p, 3)
          /\ Visited(p, 5) /\ ~Recorded(p, 5)
          /\ \E j \in 1..Len(images_data) :
                images_data[j].width = 100 /\ images_data[j].height = 100

B64Index(c) == CHOOSE n \in 0..63 : B64Chars[n + 1] = c

RECURSIVE b64decode(_)
b64decode(c) ==
    IF Len(c) < 4 THEN <<>>
    ELSE LET i1 == B64Index(c[1])
             i2 == B64Index(c[2])
             rest == b64decode(SubSeq(c, 5, Len(c)))
         IN CASE c[3] = "=" -> << i1 * 4 + i2 \div 16 >>
              [] c[4] = "=" ->
                    << i1 * 4 + i2 \div 16,
                       (i2 % 16) * 16 + B64Index(c[3]) \div 4 >>
              [] OTHER ->
                    << i1 * 4 + i2 \div 16,
                       (i2 % 16) * 16 + B64Index(c[3]) \div 4,
                       (B64Index(c[3]) % 4) * 64 + B64Index(c[4]) >> \o rest

HasFile(r) ==
    /\ "filepath" \in DOMAIN r
    /\ \E f \in files : f.path = r.filepath /\ Len(f.bytes) = r.sizeBytes
    /\ "base64" \notin DOMAIN r
    /\ "mimeType" \notin DOMAIN r

IsInline(r) ==
    /\ "base64" \in DOMAIN r
    /\ Len(b64decode(r.base64)) = r.sizeBytes
    /\ "mimeType" \in DOMAIN r
    /\ r.mimeType = "image/" \o r.extension
    /\ "filepath" \notin DOMAIN r

C10_PerImageFailure ==
    ImageRun =>
        /\ \A j \in 1..Len(lib_calls) :
              (lib_calls[j][1] = "extract_image"
                  /\ HandlingFails(ImageAt(lib_calls[j][2], lib_calls[j][3])))
              => ~Recorded(lib_calls[j][2], lib_calls[j][3])
        /\ total_extracted = Len(images_data)
        /\ (Opened /\ NoPageRaises /\ pc \in {"print", "done"} /\ ~crashed) =>
              /\ result.success = TRUE
              /\ total_extracted < 50 =>
                    \A p \in 0..(page_count - 1) :
                        \A i \in 0..(Len(pdf.pages[p + 1].images) - 1) : Visited(p, i)

\* C10 witness: extraction, bounding-box lookup and file writing each failed
\* for an image of page 1, and later images of page 1 and of page 2 are in
\* the printed successful result.
C10_Witness ==
    /\ ImageRun /\ pc = "done" /\ DirGiven /\ Returned /\ result.success
    /\ page_count = 2
    /\ Len(pdf.pages[1].images) = 7
    /\ Visited(0, 0) /\ ImageAt(0, 0).fail = "extract" /\ ~Recorded(0, 0)
    /\ Visited(0, 4) /\ ImageAt(0, 4).fail = "rects" /\ ~Recorded(0, 4)
    /\ Visited(0, 5) /\ ImageAt(0, 5).fail = "write" /\ ~Recorded(0, 5)
    /\ Recorded(0, 1) /\ Recorded(0, 6)
    /\ \E j \in 1..Len(stdout[1].images) : stdout[1].images[j].pageNumber = 2

====
